---- MODULE Spec2Model ----
(***************************************************************************)
(* Model of cmd/getPreconf.go: startup validation, the head-driven bidding *)
(* loop of main, reconnectWSClient / connectWSClient,                      *)
(* connectRPCClientWithRetries and sendPreconfBid.                         *)
(*                                                                         *)
(* log.Crit (go-ethereum/log) writes the record and calls os.Exit(1): it   *)
(* is modelled as the terminal position pc = "fatal" with fatalMsg set.    *)
(* A nil-pointer dereference is a Go runtime panic: pc = "panicked".       *)
(***************************************************************************)
EXTENDS Integers, Sequences, FiniteSets, TLC

\* ---------------------------------------------------------------- bounds
MaxTip == 3        \* blocks the chain produces during a run
MaxErrors == 1     \* stream errors the head subscription raises during a run

\* ------------------------------------------------------ program constants
MaxReconnectAttempts == 10   \* reconnectWSClient: for i := 0; i < 10; i++
ReconnectDelay == 5          \* reconnectWSClient: time.Sleep(5 * time.Second)
RPCMaxRetries == 5           \* main: connectRPCClientWithRetries(rpcEndpoint, 5, timeout)
DefaultOffset == 1           \* main: var offset uint64 = 1

NilTx == 0                   \* a nil *types.Transaction

\* ------------------------------------------------------------ environment
\* Values the environment variables can hold; "" is an unset variable.
UsePayloadValues == {"", "true", "false", "yes"}
OffsetValues == {"", "0", "x"}
EndpointValues == {"", "set"}
FlagValues == {"", "true"}

Envs ==
    [ loaded : BOOLEAN,                 \* godotenv.Load() succeeded
      USE_PAYLOAD : UsePayloadValues,
      RPC_ENDPOINT : EndpointValues,
      WS_ENDPOINT : EndpointValues,
      PRIVATE_KEY : EndpointValues,
      OFFSET : OffsetValues,
      ETH_TRANSFER : FlagValues,
      BLOB : FlagValues ]

\* strconv.ParseBool as used by parseBoolEnvVar
parseBoolEnvVar(value) ==
    IF value \in {"1", "t", "T", "TRUE", "true", "True"}
    THEN [err |-> FALSE, val |-> TRUE]
    ELSE IF value \in {"0", "f", "F", "FALSE", "false", "False"}
    THEN [err |-> FALSE, val |-> FALSE]
    ELSE [err |-> TRUE, val |-> FALSE]

\* strconv.ParseUint(value, 10, 64) as used by parseUintEnvVar, on the
\* decimal strings of OffsetValues
parseUintEnvVar(value) ==
    IF value = "0" THEN [err |-> FALSE, val |-> 0]
    ELSE IF value = "1" THEN [err |-> FALSE, val |-> 1]
    ELSE IF value = "2" THEN [err |-> FALSE, val |-> 2]
    ELSE [err |-> TRUE, val |-> 0]

VARIABLES
    env,          \* the process environment (fixed for the run)
    pc,           \* position of main
    fatalMsg,     \* message of the log.Crit that ended the process, or "none"
    usePayload, rpcEndpoint, offset, ethTransfer, blob,   \* main's locals
    net,          \* network calls made during startup
    rpcI,         \* connectRPCClientWithRetries: i
    tip,          \* latest block number of the chain
    subAlive,     \* the current subscription is delivering
    subErr,       \* an error is pending on sub.Err()
    buffer,       \* heads the subscription holds for the headers channel
    errCount,     \* stream errors raised so far
    timerFired,   \* timer.C holds the fire signal
    header, signedTx, blockNumber, err,   \* locals of the head case
    failed,       \* recoverable failures seen while handling the current head
    calls,        \* collaborator calls and reconnections made by the loop, in order
    rcI,          \* reconnectWSClient: i
    rcAttempts,   \* connect-then-subscribe attempts started in this reconnection
    rcSlept,      \* seconds slept in reconnectWSClient's 5-second delays
                  \* during this reconnection
    seedCount,    \* rand.Seed calls made so far
    wsClient,     \* main's wsClient: the connection in use (0 is nil)
    sub,          \* main's sub: the subscription whose Err() the select watches (0 is nil)
    subsCreated,  \* subscriptions created so far; the n-th one has identity n
    liveSubs,     \* subscriptions that are delivering to the headers channel
    subConn,      \* the connection the latest subscription was created on
    rcClient,     \* reconnectWSClient's local wsClient (0 is nil)
    rpcDials,     \* connectRPCClientWithRetries: DialContext calls made
    rpcSlept,     \* connectRPCClientWithRetries: time units slept (time.Duration)
    rpcResult,    \* main's client: "none" before the call and out of its
                  \* scope, else "conn" or "nil" as returned
    spbInput,     \* sendPreconfBid: the input argument
    spbBlockNumber, \* sendPreconfBid: the blockNumber argument
    clock,        \* the wall clock, in milliseconds
    began,        \* the clock when sendPreconfBid was entered
    randomWeiAmount, decayStart, decayEnd,   \* sendPreconfBid's locals
    sentBids,     \* arguments of the SendBid calls made by the call
    outcome       \* how the call ended: "none" while it runs, "sent",
                  \* "failed", "unsupported"

vars == << env, pc, fatalMsg, usePayload, rpcEndpoint, offset, ethTransfer,
           blob, net, rpcI, tip, subAlive, subErr, buffer, errCount,
           timerFired, header, signedTx, blockNumber, err,
           failed, calls, rcI, rcAttempts, rcSlept, seedCount,
           wsClient, sub, subsCreated, liveSubs, subConn, rcClient,
           rpcDials, rpcSlept, rpcResult, spbInput, spbBlockNumber, clock, began,
           randomWeiAmount, decayStart, decayEnd, sentBids, outcome >>

cfgVars == << usePayload, rpcEndpoint, offset, ethTransfer, blob >>
chainVars == << tip, subAlive, subErr, buffer, errCount >>
headVars == << header, signedTx, blockNumber, err, failed >>
rcVars == << rcI, rcAttempts, rcSlept >>
bidVars == << seedCount >>
rpcVars == << rpcI, rpcDials, rpcSlept, rpcResult >>
spbVars == << spbInput, spbBlockNumber, clock, began, randomWeiAmount, decayStart,
              decayEnd, sentBids, outcome >>
connVars == << wsClient, sub, subsCreated, liveSubs, subConn, rcClient >>

\* Every variable but env, pc and the arguments of a sendPreconfBid call, as
\* it is when the process starts
Zeroed ==
    /\ fatalMsg = "none"
    /\ usePayload = TRUE
    /\ rpcEndpoint = ""
    /\ offset = DefaultOffset
    /\ ethTransfer = ""
    /\ blob = ""
    /\ net = {}
    /\ rpcI = 0
    /\ tip = 0
    /\ subAlive = FALSE
    /\ subErr = FALSE
    /\ buffer = << >>
    /\ errCount = 0
    /\ timerFired = FALSE
    /\ header = 0
    /\ signedTx = NilTx
    /\ blockNumber = 0
    /\ err = FALSE
    /\ failed = {}
    /\ calls = << >>
    /\ rcI = 0
    /\ rcAttempts = 0
    /\ rcSlept = 0
    /\ seedCount = 0
    /\ wsClient = 0
    /\ sub = 0
    /\ subsCreated = 0
    /\ liveSubs = {}
    /\ subConn = 0
    /\ rcClient = 0
    /\ rpcDials = 0
    /\ rpcSlept = 0
    /\ rpcResult = "none"
    /\ clock = 0
    /\ began = 0
    /\ randomWeiAmount = 0
    /\ decayStart = 0
    /\ decayEnd = 0
    /\ sentBids = << >>
    /\ outcome = "none"

Init ==
    /\ env \in Envs
    /\ pc = "load_env"
    /\ spbInput = [type |-> "none", tx |-> NilTx, str |-> << >>]
    /\ spbBlockNumber = 0
    /\ Zeroed

\* A connection just created is distinct from every connection still
\* referenced; connections no longer referenced are garbage and their
\* identity may be used again
NewConnection(referenced) ==
    CHOOSE c \in 1..(Cardinality(referenced) + 1) : c \notin referenced

Crit(msg) ==
    /\ pc' = "fatal"
    /\ fatalMsg' = msg

\* main, lines 27-30
LoadEnv ==
    /\ pc = "load_env"
    /\ IF env.loaded
       THEN pc' = "read_config" /\ fatalMsg' = fatalMsg
       ELSE Crit("Error loading .env file")
    /\ UNCHANGED << env, cfgVars, net, rpcVars, chainVars, timerFired,
                    headVars, calls, rcVars, bidVars, connVars, spbVars >>

\* main, lines 43-52: USE_PAYLOAD, default true
ReadUsePayload(e) ==
    IF e.USE_PAYLOAD # "" THEN parseBoolEnvVar(e.USE_PAYLOAD)
    ELSE [err |-> FALSE, val |-> TRUE]

\* main, lines 73-82: OFFSET, default 1
ReadOffset(e) ==
    IF e.OFFSET # "" THEN parseUintEnvVar(e.OFFSET)
    ELSE [err |-> FALSE, val |-> DefaultOffset]

\* main, lines 38-91: the first log.Crit the configuration checks reach, in
\* the order of the code, or "none"
ConfigFatal_NoConflictCheck(e) ==
    IF ReadUsePayload(e).err THEN "Invalid USE_PAYLOAD value"
    ELSE IF ~ReadUsePayload(e).val /\ e.RPC_ENDPOINT = ""
    THEN "RPC_ENDPOINT environment variable is required when USE_PAYLOAD is false"
    ELSE IF e.WS_ENDPOINT = "" THEN "WS_ENDPOINT environment variable is required"
    ELSE IF e.PRIVATE_KEY = "" THEN "PRIVATE_KEY environment variable is required"
    ELSE IF ReadOffset(e).err THEN "Invalid OFFSET value"
    ELSE "none"

ConfigFatal_NoEndpointCheck(e) ==
    IF ReadUsePayload(e).err THEN "Invalid USE_PAYLOAD value"
    ELSE IF e.PRIVATE_KEY = "" THEN "PRIVATE_KEY environment variable is required"
    ELSE IF ReadOffset(e).err THEN "Invalid OFFSET value"
    ELSE IF e.ETH_TRANSFER = "true" /\ e.BLOB = "true"
    THEN "Only one of --ethtransfer or --blob can be set at a time"
    ELSE "none"

ConfigFatal(e) ==
    IF ReadUsePayload(e).err THEN "Invalid USE_PAYLOAD value"
    ELSE IF ~ReadUsePayload(e).val /\ e.RPC_ENDPOINT = ""
    THEN "RPC_ENDPOINT environment variable is required when USE_PAYLOAD is false"
    ELSE IF e.WS_ENDPOINT = "" THEN "WS_ENDPOINT environment variable is required"
    ELSE IF e.PRIVATE_KEY = "" THEN "PRIVATE_KEY environment variable is required"
    ELSE IF ReadOffset(e).err THEN "Invalid OFFSET value"
    ELSE IF e.ETH_TRANSFER = "true" /\ e.BLOB = "true"
    THEN "Only one of --ethtransfer or --blob can be set at a time"
    ELSE "none"

\* main, lines 38-100: read and validate the configuration
ReadConfig ==
    /\ pc = "read_config"
    /\ IF ConfigFatal(env) # "none"
       THEN /\ Crit(ConfigFatal(env))
            /\ UNCHANGED cfgVars
       ELSE /\ pc' = "auth"
            /\ fatalMsg' = fatalMsg
            /\ usePayload' = ReadUsePayload(env).val
            /\ rpcEndpoint' = IF ReadUsePayload(env).val THEN "" ELSE env.RPC_ENDPOINT
            /\ offset' = ReadOffset(env).val
            /\ ethTransfer' = env.ETH_TRANSFER
            /\ blob' = env.BLOB
    /\ UNCHANGED << env, net, rpcVars, chainVars, timerFired, headVars, calls, rcVars, bidVars, connVars, spbVars >>

\* main, lines 102-105: bb.AuthenticateAddress(privateKeyHex)
Authenticate ==
    /\ pc = "auth"
    /\ net' = net \cup {"AuthenticateAddress"}
    /\ \E ok \in BOOLEAN :
         IF ok THEN pc' = "new_bidder" /\ fatalMsg' = fatalMsg
         ELSE Crit("Failed to authenticate private key:")
    /\ UNCHANGED << env, cfgVars, rpcVars, chainVars, timerFired, headVars, calls, rcVars, bidVars, connVars, spbVars >>

\* main, lines 107-130: bb.NewBidderClient(cfg); the RPC dial follows only
\* when usePayload is false
NewBidderClient ==
    /\ pc = "new_bidder"
    /\ net' = net \cup {"NewBidderClient"}
    /\ \E ok \in BOOLEAN :
         IF ok
         THEN /\ pc' = IF ~usePayload THEN "rpc_dial" ELSE "ws_connect"
              /\ fatalMsg' = fatalMsg
         ELSE Crit("failed to connect to mev-commit bidder API")
    /\ UNCHANGED << env, cfgVars, rpcVars, chainVars, timerFired, headVars, calls, rcVars, bidVars, connVars, spbVars >>

\* connectRPCClientWithRetries, line 218: the loop condition i < maxRetries
RetriesLeft_OffByOne(i, maxRetries) == i <= maxRetries

RetriesLeft(i, maxRetries) == i < maxRetries

\* connectRPCClientWithRetries, line 228:
\* time.Sleep(10 * time.Duration(math.Pow(2, float64(i))))
Backoff(i) == 10 * 2^i

\* connectRPCClientWithRetries, lines 214-233: one pass of the loop body.
\* A nil client is only logged by main (lines 126-128), startup continues.
DialRPC ==
    /\ pc = "rpc_dial"
    /\ RetriesLeft(rpcI, RPCMaxRetries)
    /\ net' = net \cup {"DialContext"}
    /\ rpcDials' = rpcDials + 1
    /\ \E ok \in BOOLEAN :
         IF ok
         THEN /\ pc' = "ws_connect"
              /\ rpcResult' = "conn"
              /\ UNCHANGED << rpcI, rpcSlept >>
         ELSE /\ rpcSlept' = rpcSlept + Backoff(rpcI)
              /\ rpcI' = rpcI + 1
              /\ IF RetriesLeft(rpcI + 1, RPCMaxRetries)
                 THEN pc' = "rpc_dial" /\ rpcResult' = rpcResult
                 ELSE pc' = "ws_connect" /\ rpcResult' = "nil"
    /\ UNCHANGED << env, fatalMsg, cfgVars, chainVars, timerFired, headVars, calls, rcVars, bidVars, connVars, spbVars >>

\* connectWSClient called from main, lines 133-137 and 235-244: one pass of
\* the unbounded loop; a failed dial sleeps 10 seconds and tries again.
\* The block of lines 123-130 is over: client and the locals of
\* connectRPCClientWithRetries are out of scope.
ConnectWS ==
    /\ pc = "ws_connect"
    /\ net' = net \cup {"NewGethClient"}
    /\ \E ok \in BOOLEAN :
         IF ok
         THEN pc' = "subscribe" /\ wsClient' = NewConnection({})
         ELSE pc' = "ws_connect" /\ wsClient' = wsClient
    /\ rpcI' = 0
    /\ rpcDials' = 0
    /\ rpcSlept' = 0
    /\ rpcResult' = "none"
    /\ UNCHANGED << env, fatalMsg, cfgVars, chainVars, timerFired, headVars, calls, rcVars, bidVars,
                    sub, subsCreated, liveSubs, subConn, rcClient, spbVars >>

\* main, lines 139-145: the first head subscription, then the timer is armed
Subscribe ==
    /\ pc = "subscribe"
    /\ net' = net \cup {"SubscribeNewHead"}
    /\ \E ok \in BOOLEAN :
         IF ok
         THEN /\ pc' = "select"
              /\ fatalMsg' = fatalMsg
              /\ subAlive' = TRUE
              /\ sub' = subsCreated + 1
              /\ subsCreated' = subsCreated + 1
              /\ liveSubs' = liveSubs \cup {subsCreated + 1}
              /\ subConn' = wsClient
         ELSE /\ Crit("failed to subscribe to new blocks")
              /\ subAlive' = subAlive
              /\ UNCHANGED << sub, subsCreated, liveSubs, subConn >>
    /\ UNCHANGED << env, cfgVars, rpcVars, tip, subErr, buffer, errCount,
                    timerFired, headVars, calls, rcVars, bidVars, wsClient, rcClient, spbVars >>

\* ------------------------------------------------------------ environment
LoopPcs == {"select", "build", "dispatch", "bid_hash", "rc_connect", "rc_subscribe"}
HeadPcs == {"build", "dispatch", "bid_hash"}
ReconnectPcs == {"rc_connect", "rc_subscribe"}
Terminated == pc \in {"exited", "fatal", "panicked"}

\* The chain produces a block; a live subscription queues its head for the
\* headers channel (types.Header.Number is the block number)
NewBlock ==
    /\ pc \in LoopPcs
    /\ tip < MaxTip
    /\ tip' = tip + 1
    /\ buffer' = IF subAlive THEN Append(buffer, tip + 1) ELSE buffer
    /\ UNCHANGED << env, pc, fatalMsg, cfgVars, net, rpcVars, subAlive, subErr,
                    errCount, timerFired, headVars, calls, rcVars, bidVars, connVars, spbVars >>

\* The subscription fails: it stops delivering, drops what it had queued and
\* puts the error on sub.Err()
StreamError ==
    /\ pc \in LoopPcs
    /\ subAlive
    /\ errCount < MaxErrors
    /\ subAlive' = FALSE
    /\ subErr' = TRUE
    /\ buffer' = << >>
    /\ errCount' = errCount + 1
    /\ liveSubs' = liveSubs \ {sub}
    /\ UNCHANGED << env, pc, fatalMsg, cfgVars, net, rpcVars, tip, timerFired,
                    headVars, calls, rcVars, bidVars,
                    wsClient, sub, subsCreated, subConn, rcClient, spbVars >>

\* main, line 145: the timer armed before the loop fires once
TimerFire ==
    /\ pc \in LoopPcs
    /\ ~timerFired
    /\ timerFired' = TRUE
    /\ UNCHANGED << env, pc, fatalMsg, cfgVars, net, rpcVars, chainVars,
                    headVars, calls, rcVars, bidVars, connVars, spbVars >>

\* ------------------------------------------------------------- main loop
\* main, lines 147-148: events are received only by the select at the top of
\* the loop; every case body runs to its end before the next select
AtSelect_WhileDispatching(p) == p \in {"select", "dispatch"}

AtSelect(p) == p = "select"

\* main, lines 149-151: case <-timer.C
TimerExit_KeepsLooping ==
    /\ pc = "select"
    /\ timerFired
    /\ UNCHANGED vars

TimerExit ==
    /\ AtSelect(pc)
    /\ timerFired
    /\ pc' = "exited"
    /\ UNCHANGED << env, fatalMsg, cfgVars, net, rpcVars, chainVars, timerFired,
                    headVars, calls, rcVars, bidVars, connVars, spbVars >>

\* main, lines 152-154: case err := <-sub.Err(); reconnectWSClient is entered
\* (lines 246-252, i = 0)
RecvErr ==
    /\ AtSelect(pc)
    /\ subErr
    /\ subErr' = FALSE
    /\ pc' = "rc_connect"
    /\ rcI' = 0
    /\ rcAttempts' = 1
    /\ rcSlept' = 0
    /\ calls' = Append(calls, [op |-> "reconnectWSClient", head |-> 0, tx |-> NilTx,
                               target |-> 0, kind |-> "none"])
    /\ UNCHANGED << env, fatalMsg, cfgVars, net, rpcVars, tip, subAlive, buffer,
                    errCount, timerFired, headVars, bidVars, connVars, spbVars >>

\* main, lines 156-159: case header := <-headers; signedTx and blockNumber
\* are declared anew, err is main's variable and keeps its value
RecvHead ==
    /\ AtSelect(pc)
    /\ buffer # << >>
    /\ header' = Head(buffer)
    /\ buffer' = Tail(buffer)
    /\ signedTx' = NilTx
    /\ blockNumber' = 0
    /\ failed' = {}
    /\ pc' = "build"
    /\ UNCHANGED << env, fatalMsg, cfgVars, net, rpcVars, tip, subAlive, subErr,
                    errCount, timerFired, err, calls, rcVars, bidVars, connVars, spbVars >>

Call(op, tx, target, kind) ==
    [op |-> op, head |-> header, tx |-> tx, target |-> target, kind |-> kind]

\* ee.SelfETHTransfer / ee.ExecuteBlobTransaction (client, authAcct, ...,
\* offset): the builder reads the latest block of the connection and targets
\* latest + offset; a failed construction returns (nil, 0, err)
BuildTransaction(latest, off, id, ok) ==
    IF ok THEN [tx |-> id, blockNumber |-> latest + off, err |-> FALSE]
    ELSE [tx |-> NilTx, blockNumber |-> 0, err |-> TRUE]

\* main, lines 160-165: which builder the mode flags select
SelectBuilder(eth, blb) ==
    IF eth = "true" THEN "SelfETHTransfer"
    ELSE IF blb = "true" THEN "ExecuteBlobTransaction"
    ELSE "none"

\* main, lines 157-182: build the transaction for the head
Build ==
    /\ pc = "build"
    /\ IF SelectBuilder(ethTransfer, blob) # "none"
       THEN \E ok \in BOOLEAN :
              LET r == BuildTransaction(tip, offset, header, ok) IN
              /\ signedTx' = r.tx
              /\ blockNumber' = r.blockNumber
              /\ err' = r.err
              /\ failed' = IF r.err THEN {"build"} ELSE {}
              /\ calls' = Append(calls, Call(SelectBuilder(ethTransfer, blob),
                                             r.tx, r.blockNumber, "none"))
       ELSE UNCHANGED << signedTx, blockNumber, err, failed, calls >>
    /\ pc' = "dispatch"
    /\ UNCHANGED << env, fatalMsg, cfgVars, net, rpcVars, chainVars, timerFired,
                    header, rcVars, bidVars, connVars, spbVars >>

\* main, lines 185-188: the use-payload flag selects the submission path
UsesRelay_Always(up) == TRUE

UsesRelay(up) == ~up

\* sendPreconfBid, lines 291-308: the case of the type switch an input of the
\* given dynamic type takes; "none" is the default case, which only warns
BidKind_DefaultHash(type) ==
    IF type = "*types.Transaction" THEN "payload" ELSE "hash"

BidKind(type) ==
    IF type = "string" THEN "hash"
    ELSE IF type = "*types.Transaction" THEN "payload"
    ELSE "none"

\* sendPreconfBid, lines 289-308: the SendBid calls made for an input of the
\* given dynamic type; ok is the outcome of the Bid Service call
SubmitBid_RetryOnFailure(input, target, ok) ==
    IF BidKind(input.type) = "none" THEN << >>
    ELSE IF ok THEN << Call("SendBid", input.tx, target, BidKind(input.type)) >>
    ELSE << Call("SendBid", input.tx, target, BidKind(input.type)),
            Call("SendBid", input.tx, target, BidKind(input.type)) >>

SubmitBid(input, target, ok) ==
    IF BidKind(input.type) = "none" THEN << >>
    ELSE << Call("SendBid", input.tx, target, BidKind(input.type)) >>

\* main, lines 185-187 and 198-201 with sendPreconfBid, lines 267-315: the
\* payload path. sendPreconfBid seeds the random source first (line 269).
\* A nil signedTx is a typed nil inside the interface value: it matches
\* case *types.Transaction and line 301 calls Hash() on it.
BidPayload ==
    /\ pc = "dispatch"
    /\ ~UsesRelay(usePayload)
    /\ seedCount' = seedCount + 1
    /\ IF signedTx = NilTx
       THEN /\ pc' = "panicked"
            /\ UNCHANGED << calls, failed >>
       ELSE \E ok \in BOOLEAN :
              /\ calls' = calls \o SubmitBid([type |-> "*types.Transaction", tx |-> signedTx],
                                              blockNumber, ok)
              /\ failed' = IF ok THEN failed ELSE failed \cup {"bid"}
              /\ pc' = "select"
    /\ UNCHANGED << env, fatalMsg, cfgVars, net, rpcVars, chainVars, timerFired,
                    header, signedTx, blockNumber, err, rcVars, connVars, spbVars >>

\* main, lines 189-193: ee.SendBundle(rpcEndpoint, signedTx, blockNumber);
\* its error is logged and overwrites err
SendBundle ==
    /\ pc = "dispatch"
    /\ UsesRelay(usePayload)
    /\ calls' = Append(calls, Call("SendBundle", signedTx, blockNumber, "none"))
    /\ \E ok \in BOOLEAN :
         /\ err' = ~ok
         /\ failed' = IF ok THEN failed ELSE failed \cup {"relay"}
    /\ pc' = "bid_hash"
    /\ UNCHANGED << env, fatalMsg, cfgVars, net, rpcVars, chainVars, timerFired,
                    header, signedTx, blockNumber, rcVars, bidVars, connVars, spbVars >>

\* main, lines 194-201 with sendPreconfBid: the hash path. The argument
\* signedTx.Hash().String() is evaluated first and dereferences signedTx.
BidHash ==
    /\ pc = "bid_hash"
    /\ IF signedTx = NilTx
       THEN /\ pc' = "panicked"
            /\ UNCHANGED << calls, failed, seedCount >>
       ELSE \E ok \in BOOLEAN :
              /\ calls' = calls \o SubmitBid([type |-> "string", tx |-> signedTx],
                                              blockNumber, ok)
              /\ failed' = IF ok THEN failed ELSE failed \cup {"bid"}
              /\ seedCount' = seedCount + 1
              /\ pc' = "select"
    /\ UNCHANGED << env, fatalMsg, cfgVars, net, rpcVars, chainVars, timerFired,
                    header, signedTx, blockNumber, err, rcVars, connVars, spbVars >>

\* ----------------------------------------------------------- reconnection
\* connectWSClient called from reconnectWSClient, lines 252 and 235-244: one
\* pass of the unbounded loop; it returns only with a connection
RcConnect ==
    /\ pc = "rc_connect"
    /\ \E ok \in BOOLEAN :
         IF ok
         THEN pc' = "rc_subscribe" /\ rcClient' = NewConnection({wsClient, subConn})
         ELSE pc' = "rc_connect" /\ rcClient' = rcClient
    /\ UNCHANGED << env, fatalMsg, cfgVars, net, rpcVars, chainVars, timerFired,
                    headVars, calls, rcVars, bidVars,
                    wsClient, sub, subsCreated, liveSubs, subConn, spbVars >>

\* main, line 154: wsClient, sub = reconnectWSClient(wsEndpoint, headers)
AssignClient_KeepOld(old, returned) == old

AssignClient(old, returned) == returned

\* reconnectWSClient, line 251: the loop condition i < 10
AttemptsLeft_OffByOne(i) == i <= MaxReconnectAttempts

AttemptsLeft(i) == i < MaxReconnectAttempts

\* reconnectWSClient, lines 253-264: subscribe on the new connection; on
\* success return to the loop (the function's locals are gone), on failure
\* sleep 5 seconds and go round again, log.Crit when the attempts are used up
RcSubscribe ==
    /\ pc = "rc_subscribe"
    /\ \E ok \in BOOLEAN :
         IF ok
         THEN /\ pc' = "select"
              /\ fatalMsg' = fatalMsg
              /\ subAlive' = TRUE
              /\ rcI' = 0
              /\ rcAttempts' = 0
              /\ rcSlept' = 0
              /\ wsClient' = AssignClient(wsClient, rcClient)
              /\ sub' = subsCreated + 1
              /\ subsCreated' = subsCreated + 1
              /\ liveSubs' = liveSubs \cup {subsCreated + 1}
              /\ subConn' = rcClient
              /\ rcClient' = 0
         ELSE /\ rcSlept' = rcSlept + ReconnectDelay
              /\ rcI' = rcI + 1
              /\ subAlive' = subAlive
              /\ UNCHANGED connVars
              /\ IF AttemptsLeft(rcI + 1)
                 THEN /\ pc' = "rc_connect"
                      /\ fatalMsg' = fatalMsg
                      /\ rcAttempts' = rcAttempts + 1
                 ELSE /\ Crit("failed to reconnect WebSocket client after retries")
                      /\ rcAttempts' = rcAttempts
    /\ UNCHANGED << env, cfgVars, net, rpcVars, tip, subErr, buffer, errCount,
                    timerFired, headVars, calls, bidVars, spbVars >>

Next ==
    \/ LoadEnv
    \/ ReadConfig
    \/ Authenticate
    \/ NewBidderClient
    \/ DialRPC
    \/ ConnectWS
    \/ Subscribe
    \/ NewBlock
    \/ StreamError
    \/ TimerFire
    \/ TimerExit
    \/ RecvErr
    \/ RecvHead
    \/ Build
    \/ BidPayload
    \/ SendBundle
    \/ BidHash
    \/ RcConnect
    \/ RcSubscribe

Spec == Init /\ [][Next]_vars

\* The process steps (everything but the chain, the stream and the timer)
Progress ==
    \/ LoadEnv \/ ReadConfig \/ Authenticate \/ NewBidderClient \/ DialRPC
    \/ ConnectWS \/ Subscribe \/ TimerExit \/ RecvErr \/ RecvHead \/ Build
    \/ BidPayload \/ SendBundle \/ BidHash \/ RcConnect \/ RcSubscribe

\* The process keeps running and every collaborator call returns; Go's select
\* picks among the ready cases at random, so a case that is ready again and
\* again is eventually taken
FairSpec == Spec /\ WF_vars(Progress) /\ SF_vars(TimerExit)

\* ------------------------------------------------- sendPreconfBid alone
MaxStrLen == 3     \* length of the hash strings passed as input
MaxClock == 2      \* milliseconds the clock advances during a call
FloatSteps == 8    \* rand.Float64() returns k / FloatSteps, k in 0..FloatSteps-1

Chars == {"0", "x", "a"}
Strings == UNION { [1..n -> Chars] : n \in 0..MaxStrLen }

\* The values an interface{} argument can hold: a string, a (possibly nil)
\* *types.Transaction, a value of another type, or the nil interface
SpbInputs ==
    { [type |-> "string", tx |-> NilTx, str |-> str] : str \in Strings }
    \cup { [type |-> "*types.Transaction", tx |-> t, str |-> << >>] : t \in {NilTx, 1} }
    \cup { [type |-> ty, tx |-> NilTx, str |-> << >>] : ty \in {"int", "nil"} }
SpbBlockNumbers == {1, 2}
SpbPcs == {"spb_seed", "spb_amount", "spb_time", "spb_switch"}

\* sendPreconfBid, lines 272-273, in units of 10^12 wei (10^-6 ETH):
\* 0.0002 ETH and 0.001 ETH
MinAmount == 200
MaxAmount == 1000

\* sendPreconfBid, lines 274-277: minAmount + f*(maxAmount-minAmount) for
\* f = k/n, converted to an integer by truncation
RandomWeiAmount_NoSubtraction(k, n) == MinAmount + (k * MaxAmount) \div n

RandomWeiAmount(k, n) == MinAmount + (k * (MaxAmount - MinAmount)) \div n

\* sendPreconfBid, line 287: currentTime + 36 seconds in milliseconds
DecayWidth == 36000
DecayEnd_Seconds(currentTime) == currentTime + 36

DecayEnd(currentTime) == currentTime + DecayWidth

\* strings.TrimPrefix(s, prefix), line 294
TrimPrefix(str, prefix) ==
    IF Len(str) >= Len(prefix) /\ SubSeq(str, 1, Len(prefix)) = prefix
    THEN SubSeq(str, Len(prefix) + 1, Len(str))
    ELSE str

\* sendPreconfBid, lines 291-308: the cases of the type switch
Supported(in) == BidKind(in.type) # "none"

\* sendPreconfBid, lines 294-303: the arguments SendBid is given
BidArgs(in, amount, target, start, end) ==
    [ hash |-> IF in.type = "string" THEN TrimPrefix(in.str, << "0", "x" >>) ELSE << >>,
      tx |-> IF in.type = "*types.Transaction" THEN in.tx ELSE NilTx,
      amount |-> amount, target |-> target,
      decayStart |-> start, decayEnd |-> end ]

\* A call of sendPreconfBid with any input and block number
BidInit ==
    /\ env = [loaded |-> TRUE, USE_PAYLOAD |-> "", RPC_ENDPOINT |-> "",
               WS_ENDPOINT |-> "set", PRIVATE_KEY |-> "set", OFFSET |-> "",
               ETH_TRANSFER |-> "", BLOB |-> "true"]
    /\ pc = "spb_seed"
    /\ spbInput \in SpbInputs
    /\ spbBlockNumber \in SpbBlockNumbers
    /\ Zeroed

mainVars == << env, fatalMsg, cfgVars, net, rpcVars, chainVars, timerFired,
              headVars, rcVars, connVars >>

\* The wall clock advances while the call runs
Tick ==
    /\ pc \in SpbPcs
    /\ clock < MaxClock
    /\ clock' = clock + 1
    /\ UNCHANGED << mainVars, pc, calls, seedCount, spbInput, spbBlockNumber,
                    began, randomWeiAmount, decayStart, decayEnd, sentBids, outcome >>

\* sendPreconfBid, line 269: rand.Seed(uint64(time.Now().UnixNano()))
SpbSeed ==
    /\ pc = "spb_seed"
    /\ began' = clock
    /\ seedCount' = seedCount + 1
    /\ pc' = "spb_amount"
    /\ UNCHANGED << mainVars, calls, spbInput, spbBlockNumber, clock,
                    randomWeiAmount, decayStart, decayEnd, sentBids, outcome >>

\* sendPreconfBid, lines 271-280: the random amount
SpbAmount ==
    /\ pc = "spb_amount"
    /\ \E k \in 0..(FloatSteps - 1) :
         randomWeiAmount' = RandomWeiAmount(k, FloatSteps)
    /\ pc' = "spb_time"
    /\ UNCHANGED << mainVars, calls, seedCount, spbInput, spbBlockNumber, clock,
                    began, decayStart, decayEnd, sentBids, outcome >>

\* sendPreconfBid, lines 282-287: the decay window
SpbTime ==
    /\ pc = "spb_time"
    /\ decayStart' = clock
    /\ decayEnd' = DecayEnd(clock)
    /\ pc' = "spb_switch"
    /\ UNCHANGED << mainVars, calls, seedCount, spbInput, spbBlockNumber, clock,
                    began, randomWeiAmount, sentBids, outcome >>

\* sendPreconfBid, lines 289-315: the type switch and the SendBid call; a nil
\* *types.Transaction matches its case and Hash() dereferences it (line 301)
SpbSwitch ==
    /\ pc = "spb_switch"
    /\ IF spbInput.type = "*types.Transaction" /\ spbInput.tx = NilTx
       THEN /\ pc' = "panicked"
            /\ UNCHANGED << calls, sentBids, outcome >>
       ELSE \E ok \in BOOLEAN :
              LET made == SubmitBid(spbInput, spbBlockNumber, ok) IN
              /\ calls' = calls \o made
              /\ sentBids' = [i \in DOMAIN made |->
                                BidArgs(spbInput, randomWeiAmount, made[i].target,
                                        decayStart, decayEnd)]
              /\ outcome' = IF ~Supported(spbInput) THEN "unsupported"
                             ELSE IF ok THEN "sent" ELSE "failed"
              /\ pc' = "spb_return"
    /\ UNCHANGED << mainVars, seedCount, spbInput, spbBlockNumber, clock, began,
                    randomWeiAmount, decayStart, decayEnd >>

BidNext == Tick \/ SpbSeed \/ SpbAmount \/ SpbTime \/ SpbSwitch

BidSpec == BidInit /\ [][BidNext]_vars

\* ------------------------------------------------------------------ claims
Builders == {"SelfETHTransfer", "ExecuteBlobTransaction"}
CallsOf(ops, h) == {k \in DOMAIN calls : calls[k].op \in ops /\ calls[k].head = h}
ConflictMsg == "Only one of --ethtransfer or --blob can be set at a time"
ReconnectMsg == "failed to reconnect WebSocket client after retries"
BothRequested == env.ETH_TRANSFER = "true" /\ env.BLOB = "true"

\* C1: a head whose transaction is nil gets no relay submission and no bid
\* submission: every SendBundle and SendBid call carries a non-nil transaction.
C1_NilTxNeverSubmitted ==
    \A k \in DOMAIN calls :
        calls[k].op \in {"SendBundle", "SendBid"} => calls[k].tx # NilTx

\* C2: after a construction, relay or bid failure while handling a head the
\* process is still running (it has not crashed).
C2_FailureKeepsRunning ==
    failed # {} => pc # "panicked"

\* C3: once the builder step of a head is over, exactly one builder has been
\* invoked for that head.
C3_ExactlyOneBuilder ==
    pc \in {"dispatch", "bid_hash"} => Cardinality(CallsOf(Builders, header)) = 1

\* C4: every bid targets head number + offset, the target block of the
\* transaction built for that head.
C4_TargetIsHeadPlusOffset ==
    \A k \in DOMAIN calls :
        calls[k].op = "SendBid" =>
            /\ calls[k].target = calls[k].head + offset
            /\ \E j \in 1..(k - 1) :
                 /\ calls[j].op \in Builders
                 /\ calls[j].head = calls[k].head
                 /\ calls[j].target = calls[k].target

\* C5 (as stated): with both modes requested startup makes no network call,
\* never gets past the configuration checks, and its fatal termination is the
\* configuration conflict.
C5_AlwaysConflict ==
    BothRequested =>
        /\ net = {}
        /\ pc \in {"load_env", "read_config", "fatal"}
        /\ pc = "fatal" => fatalMsg = ConflictMsg

\* C5 (amended): with both modes requested startup makes no network call and
\* never gets past the configuration checks; its fatal termination is the
\* configuration conflict whenever the checks that come first in main (the
\* .env load, USE_PAYLOAD, RPC_ENDPOINT, WS_ENDPOINT, PRIVATE_KEY, OFFSET) pass.
C5_ConflictUnlessEarlierFatal ==
    BothRequested =>
        /\ net = {}
        /\ pc \in {"load_env", "read_config", "fatal"}
        /\ ( /\ pc = "fatal"
             /\ env.loaded
             /\ ~ReadUsePayload(env).err
             /\ (~ReadUsePayload(env).val => env.RPC_ENDPOINT # "")
             /\ env.WS_ENDPOINT # ""
             /\ env.PRIVATE_KEY # ""
             /\ ~ReadOffset(env).err ) => fatalMsg = ConflictMsg

C5_Witness == BothRequested /\ pc = "fatal" /\ fatalMsg = ConflictMsg

\* C6: a reconnection makes at most 10 connect-then-subscribe attempts, with
\* one 5-second delay before each attempt after the first, returns to the loop
\* on the first successful subscription, and ends fatally after exactly 10
\* failed attempts.
C6_ReconnectInv ==
    /\ rcAttempts <= 10
    /\ pc \in ReconnectPcs => rcAttempts = rcI + 1 /\ rcSlept = 5 * (rcAttempts - 1)
    /\ fatalMsg = ReconnectMsg => rcAttempts = 10 /\ rcI = 10 /\ rcSlept = 50

C6_ReconnectStep ==
    /\ (pc = "rc_subscribe" /\ subAlive') => pc' = "select"
    /\ (pc \in ReconnectPcs /\ pc' = "select") => subAlive'
    /\ (pc \in ReconnectPcs /\ pc' = "fatal") => rcI' = 10

C6_ReconnectBound == []C6_ReconnectInv /\ [][C6_ReconnectStep]_vars

C6_Witness == pc = "fatal" /\ fatalMsg = ReconnectMsg /\ rcAttempts = 10

\* C7: once the timer has fired the loop receives no further head.
C7_NoHeadAfterFire ==
    [][timerFired => ~(pc = "select" /\ pc' = "build")]_vars

\* C8 (as stated): after the timer fires the loop eventually exits cleanly.
C8_EventuallyCleanExit == timerFired ~> (pc = "exited")

\* C8 (amended): after the timer fires the process does not keep handling
\* events forever: it eventually terminates (cleanly through the timer case,
\* fatally when a reconnection is exhausted, or by the crash of a head with a
\* nil transaction) unless it stays forever in connectWSClient's retry loop.
C8_EventuallyStops ==
    timerFired ~> (Terminated \/ <>[](pc = "rc_connect"))

C8_Witness == timerFired /\ pc = "exited"

\* C9: every head gets at most one build and at most one bid, and nothing is
\* built or submitted while a reconnection is in progress.
C9_Inv ==
    \A h \in 1..tip :
        /\ Cardinality(CallsOf({"SendBid"}, h)) <= 1
        /\ Cardinality(CallsOf(Builders, h)) <= 1

C9_Step == pc \in ReconnectPcs => calls' = calls

C9_AtMostOneBidPerHead == []C9_Inv /\ [][C9_Step]_vars

C9_Witness ==
    \E i, j, k \in DOMAIN calls :
        /\ i < j /\ j < k
        /\ calls[i].op = "SendBid"
        /\ calls[j].op = "reconnectWSClient"
        /\ calls[k].op = "SendBid"

\* C10: with use-payload every bid carries the payload and nothing goes to the
\* relay; without it every bid carries the hash and comes after the relay
\* submission of the same transaction for the same head.
C10_PathFixedByFlag ==
    /\ usePayload => \A k \in DOMAIN calls : calls[k].op # "SendBundle"
    /\ \A k \in DOMAIN calls :
         calls[k].op = "SendBid" =>
            IF usePayload
            THEN calls[k].kind = "payload"
            ELSE /\ calls[k].kind = "hash"
                 /\ \E j \in 1..(k - 1) :
                      /\ calls[j].op = "SendBundle"
                      /\ calls[j].head = calls[k].head
                      /\ calls[j].tx = calls[k].tx

C10_Witness ==
    /\ ~usePayload
    /\ \E k \in DOMAIN calls : calls[k].op = "SendBid" /\ calls[k].kind = "hash"

\* C13: every startup-fatal condition ends the process before the loop is
\* entered (no subscription, no head taken, nothing built or submitted), and a
\* missing RPC endpoint is fatal only when use-payload is false.
RPCRequiredMsg == "RPC_ENDPOINT environment variable is required when USE_PAYLOAD is false"
StartupFatalMsgs ==
    { "Invalid USE_PAYLOAD value", RPCRequiredMsg,
      "WS_ENDPOINT environment variable is required",
      "PRIVATE_KEY environment variable is required",
      "Invalid OFFSET value",
      "Failed to authenticate private key:",
      "failed to connect to mev-commit bidder API" }
StartupFatalCondition ==
    \/ env.WS_ENDPOINT = ""
    \/ env.PRIVATE_KEY = ""
    \/ ReadUsePayload(env).err
    \/ (~ReadUsePayload(env).val /\ env.RPC_ENDPOINT = "")
    \/ ReadOffset(env).err
LoopNeverEntered ==
    /\ "SubscribeNewHead" \notin net
    /\ ~subAlive
    /\ header = 0
    /\ calls = << >>

C13_StartupFatalBeforeLoop ==
    /\ (StartupFatalCondition /\ pc \notin {"load_env", "read_config"}) =>
            (pc = "fatal" /\ fatalMsg \in StartupFatalMsgs \cup {"Error loading .env file"})
    /\ fatalMsg \in StartupFatalMsgs => (pc = "fatal" /\ LoopNeverEntered)
    /\ pc \in {"auth", "new_bidder"} => LoopNeverEntered
    /\ fatalMsg = RPCRequiredMsg => ~ReadUsePayload(env).val
    /\ (pc = "read_config" /\ ReadUsePayload(env).val /\ env.RPC_ENDPOINT = ""
          /\ ~(StartupFatalCondition \/ BothRequested)) => ConfigFatal(env) = "none"

C13_Witness ==
    /\ pc = "fatal"
    /\ fatalMsg = RPCRequiredMsg
    /\ env.WS_ENDPOINT # ""

\* C16: on the hash path a head whose relay submission failed gets no bid.
C16_NoBidAfterRelayFailure ==
    "relay" \in failed => CallsOf({"SendBid"}, header) = {}

\* C18: the random source is seeded once per run, however many bids are
\* composed.
C18_SeededOncePerRun ==
    /\ seedCount <= 1
    /\ (\E k \in DOMAIN calls : calls[k].op = "SendBid") => seedCount = 1

\* C19: the loop takes one event per wake-up and never overlaps work: the
\* calls of a head are contiguous (no other head and no reconnection in
\* between), and while a head cycle or a reconnection runs no head is taken
\* off the channel and no stream error is consumed.
C19_Inv ==
    /\ \A i, j, k \in DOMAIN calls :
         (i < j /\ j < k /\ calls[i].head # 0 /\ calls[i].head = calls[k].head)
            => calls[j].head = calls[i].head
    /\ pc \in HeadPcs => header # 0

C19_Step ==
    /\ pc # "select" =>
         /\ header' = header
         /\ (subErr => subErr')
         /\ buffer' \in {buffer, Append(buffer, tip'), << >>}
    /\ (pc = "select" /\ pc' # "select") =>
         \/ pc' = "exited" /\ buffer' = buffer /\ subErr' = subErr /\ header' = header
         \/ /\ pc' = "rc_connect" /\ subErr /\ ~subErr'
            /\ buffer' = buffer /\ header' = header
         \/ /\ pc' = "build" /\ buffer # << >>
            /\ header' = Head(buffer) /\ buffer' = Tail(buffer) /\ subErr' = subErr

C19_OneEventNoOverlap == []C19_Inv /\ [][C19_Step]_vars

\* a head is waiting on the channel while the cycle of an earlier head runs
C19_Witness ==
    /\ pc = "bid_hash"
    /\ buffer # << >>
    /\ Head(buffer) > header
    /\ \E k \in DOMAIN calls : calls[k].op = "SendBundle" /\ calls[k].head = header

\* C20: whenever the loop waits at the select, the subscription it watches is
\* non-nil and the latest one created, no other subscription is delivering to
\* the headers channel, and it was created on the connection main holds for
\* the next builder call; a reconnection that returns to the loop returns a
\* non-nil connection and subscription.
C20_Inv ==
    pc \in {"select", "build"} =>
        /\ sub # 0
        /\ sub = subsCreated
        /\ liveSubs \subseteq {sub}
        /\ wsClient # 0
        /\ subConn = wsClient

C20_Step ==
    /\ (pc \in ReconnectPcs /\ pc' = "select") =>
            (wsClient' # 0 /\ sub' # 0 /\ sub' # sub /\ liveSubs' = {sub'})
    /\ (pc = "select" /\ pc' = "build") => (wsClient' = wsClient /\ sub' = sub)

C20_WatchedSubscriptionIsCurrent == []C20_Inv /\ [][C20_Step]_vars

C20_Witness ==
    /\ pc = "build"
    /\ sub = 2
    /\ wsClient = 2
    /\ liveSubs = {2}

\* C17: connectRPCClientWithRetries makes at most maxRetries (5) dials,
\* returns the connection of the first successful dial without dialling
\* again, sleeps 10 * 2^i after failed dial number i, returns nil after 5
\* failures, always returns, and is called only when use-payload is false.
C17_Inv ==
    /\ rpcDials <= 5
    /\ (rpcDials > 0 \/ pc = "rpc_dial") => ~usePayload
    /\ pc = "rpc_dial" => (rpcResult = "none" /\ rpcDials = rpcI /\ rpcI < 5)
    /\ rpcResult = "conn" => (rpcDials = rpcI + 1 /\ pc = "ws_connect")
    /\ rpcResult = "nil" => (rpcDials = 5 /\ rpcI = 5 /\ pc = "ws_connect")
    /\ rpcSlept = 10 * (2^rpcI - 1)

C17_Step ==
    /\ rpcDials' > rpcDials => (pc = "rpc_dial" /\ rpcDials' = rpcDials + 1)
    /\ rpcI' = rpcI + 1 => rpcSlept' = rpcSlept + 10 * 2^rpcI
    /\ (pc = "rpc_dial" /\ rpcResult' = "conn") => (rpcSlept' = rpcSlept /\ rpcI' = rpcI)

C17_BoundedBackoffDial ==
    /\ []C17_Inv
    /\ [][C17_Step]_vars
    /\ (pc = "rpc_dial") ~> (pc = "ws_connect")

C17_Witness ==
    /\ pc = "ws_connect"
    /\ rpcResult = "nil"
    /\ rpcDials = 5
    /\ rpcSlept = 310

\* C11: an input that is neither a string nor a *types.Transaction is
\* rejected as unsupported and no SendBid call is made.
C11_UnsupportedTypeNoBid ==
    (pc = "spb_return" /\ spbInput.type \notin {"string", "*types.Transaction"}) =>
        /\ outcome = "unsupported"
        /\ calls = << >>
        /\ sentBids = << >>

C11_Witness ==
    pc = "spb_return" /\ spbInput.type = "int" /\ outcome = "unsupported"

HasHexPrefix(str) == Len(str) >= 2 /\ str[1] = "0" /\ str[2] = "x"

\* What the reference dispatch is to do with the input of the call: one
\* SendBid call with the caller's block number, a hash string with exactly one
\* leading "0x" removed when it has one and unchanged otherwise, a transaction
\* object as it is
ReferenceDispatched ==
    /\ Len(calls) = 1
    /\ Len(sentBids) = 1
    /\ calls[1].op = "SendBid"
    /\ calls[1].target = spbBlockNumber
    /\ sentBids[1].target = spbBlockNumber
    /\ spbInput.type = "string" =>
          /\ calls[1].kind = "hash"
          /\ IF HasHexPrefix(spbInput.str)
             THEN << "0", "x" >> \o sentBids[1].hash = spbInput.str
             ELSE sentBids[1].hash = spbInput.str
    /\ spbInput.type = "*types.Transaction" =>
          /\ calls[1].kind = "payload"
          /\ sentBids[1].tx = spbInput.tx
          /\ calls[1].tx = spbInput.tx

\* C12: for every hash string and every transaction object passed to
\* sendPreconfBid, once the call is over exactly one SendBid call was made, with
\* the caller's block number, a hash string with exactly one leading "0x"
\* removed when it has one and unchanged otherwise, a transaction object as
\* it is.
C12_ReferenceDispatch ==
    (pc \in {"spb_return", "panicked"}
        /\ spbInput.type \in {"string", "*types.Transaction"}) => ReferenceDispatched

\* The same for the inputs other than the nil transaction object
C12_NonNilReferenceDispatch ==
    (pc = "spb_return" /\ spbInput.type \in {"string", "*types.Transaction"})
        => ReferenceDispatched

\* C14: every bid amount lies between the wei equivalents of 0.0002 and 0.001
\* ETH (200 and 1000 in units of 10^12 wei).
C14_AmountInRange ==
    \A i \in DOMAIN sentBids :
        200 <= sentBids[i].amount /\ sentBids[i].amount <= 1000

C14_Witness ==
    \E i \in DOMAIN sentBids : sentBids[i].amount > 200

\* C15: every bid has decayEnd - decayStart = 36000 ms and a decayStart read
\* no earlier than the moment sendPreconfBid was entered.
C15_DecayWindow ==
    \A i \in DOMAIN sentBids :
        /\ sentBids[i].decayEnd - sentBids[i].decayStart = 36000
        /\ sentBids[i].decayStart >= began

C15_Witness ==
    \E i \in DOMAIN sentBids : sentBids[i].decayStart > began

====
